---- MODULE Spec2Model ----
(***************************************************************************)
(* A model of the PDF compression backend:                                 *)
(*   - PDFCompressor.compress_with_settings / compress_to_target_size      *)
(*     (backend/src/services/pdf_compressor.py),                           *)
(*   - FileManager, the in-memory job store                                *)
(*     (backend/src/services/file_manager.py),                             *)
(*   - ImageConverter.convert_images_to_pdf                                *)
(*     (backend/src/services/image_converter.py),                          *)
(*   - the compress_pdf, images_to_pdf, status and download handlers       *)
(*     (backend/src/api/compression.py),                                   *)
(*   - the periodic cleanup task (backend/src/main.py).                    *)
(*                                                                         *)
(* File sizes are natural numbers of an abstract unit; the code compares   *)
(* sizes in MB (bytes / 2^20), which preserves every comparison made here. *)
(***************************************************************************)
EXTENDS Integers, Sequences, FiniteSets, TLC

\* ------------------------------------------------------------------ bounds
\* Largest file size (in size units) a tool or an upload can produce.
MaxSize == 2
\* Longest configured ladder (compression.progressive_configs).
MaxLadder == 2
\* Largest configured compression.max_attempts besides the default.
MaxAttemptsCfg == 2
\* Number of job identifiers (uuid4 values) the store can hand out.
MaxJobs == 2
\* Number of job-creating requests the handlers serve in one behaviour.
MaxRequests == 1
\* Last instant of the clock.
MaxTime == 1
\* cleanup.max_age_hours, in clock ticks.
MaxAge == 0
\* Most files one images-to-pdf request uploads.
MaxFiles == 1
\* Number of direct calls of the job store in one behaviour.
MaxCalls == 4
\* Threads calling the job store at the same time.
MaxCallers == 2
\* Paths passed to one call of convert_images_to_pdf.
MaxImages == 2

\* --------------------------------------------------------- program constants
\* CompressionConfig.max_attempts default.
DefaultMaxAttempts == 11

VARIABLES
    progressive_configs, \* config.compression.progressive_configs (the configured ladder)
    max_attempts,        \* config.compression.max_attempts
    gsInstalled,         \* whether the Ghostscript executable can be located
    fs,                  \* the files of every job directory: fs[dir][path]
    search,              \* the activation record of compress_to_target_size
    hist,                \* history of the current search (what was invoked, measured)
    jobs,                \* FileManager._jobs
    nextId,              \* the next fresh job identifier (uuid4)
    now,                 \* datetime.now()
    req,                 \* the request handler in progress
    cleanup_enabled,     \* config.cleanup.enabled
    poll,                \* a client's status request (GET /status/{job_id})
    op,                  \* the last call made directly: name, arguments, outcome
    sweep,               \* the activation record of cleanup_old_jobs
    mutex,               \* FileManager._lock: its holder, and who took it for update_job
    callers,             \* the threads calling FileManager, each at its own line
    conv                 \* the activation record of convert_images_to_pdf

vars == <<progressive_configs, max_attempts, gsInstalled, fs, search, hist,
          jobs, nextId, now, req, cleanup_enabled, poll, op, sweep,
          mutex, callers, conv>>

\* The configuration, fixed at start-up.
config == <<progressive_configs, max_attempts, gsInstalled, cleanup_enabled>>

\* The activations outside the request handlers.
calls == <<mutex, callers, conv>>

\* ------------------------------------------------------------------ values
Min(a, b) == IF a <= b THEN a ELSE b
Max(a, b) == IF a >= b THEN a ELSE b

JobIds == 1..MaxJobs
Sizes == 0..MaxSize
\* Targets the request form admits: target_size_mb >= 0.1, so never 0.
Targets == 1..MaxSize

\* The paths of one job directory: the upload, the caller-named output, the
\* assembled intermediate "<name>_temp.pdf" and the saved images.
\* "." stands for the directory itself.
ImagePath(i) == "image" \o ToString(i)
DirPath == "."
Paths == {DirPath, "input.pdf", "output.pdf", "output_temp.pdf"}
         \cup {ImagePath(i) : i \in 1..MaxFiles}

NoFile == [exists |-> FALSE, size |-> 0]
File(s) == [exists |-> TRUE, size |-> s]
\* No directory, and the directory job_dir.mkdir creates.
EmptyDir == [p \in Paths |-> NoFile]
NewDir == [EmptyDir EXCEPT ![DirPath] = File(0)]

\* os.path.exists
PathExists(f) == f.exists
\* get_file_size_mb: os.path.getsize of an existing file
get_file_size_mb(f) == f.size

\* One ladder entry (dpi, quality, description).
Cfg(d, q, s) == [dpi |-> d, quality |-> q, desc |-> s]
NoConfig == Cfg(0, 0, "None")

\* The fallback ladder compress_to_target_size uses when none is configured.
DefaultConfigs ==
    << Cfg(150, 80, "High quality"),   Cfg(120, 70, "Good quality"),
       Cfg(96, 60, "Medium quality"),  Cfg(72, 50, "Low quality"),
       Cfg(50, 40, "Very low quality"), Cfg(36, 30, "Minimal quality"),
       Cfg(30, 25, "Super compressed"), Cfg(24, 20, "Heavy compression"),
       Cfg(20, 15, "Maximum compression"), Cfg(15, 10, "Extreme compression"),
       Cfg(10, 5, "Ultra compression") >>

\* A configured ladder of n entries, mild to aggressive.
ConfiguredLadder(n) == [k \in 1..n |-> Cfg(300 - 10 * k, 100 - 5 * k, "configured")]

\* configs, after the "if not configs" fallback.
EffectiveConfigs(pc) == IF Len(pc) = 0 THEN DefaultConfigs ELSE pc

\* configs[:max_attempts], with Python's slice semantics: a negative bound
\* counts from the end of the list.
AttemptList(configs, m) ==
    IF m >= 0 THEN SubSeq(configs, 1, Min(Len(configs), m))
    ELSE SubSeq(configs, 1, Max(0, Len(configs) + m))

\* --------------------------------------------------------------- diagnostics
ToolMissingMsg == "Ghostscript not found. Please install: sudo apt-get install ghostscript"
ToolFailedMsg == "Compression error: stderr"
CompressionOkMsg == "Compression successful"
CompressionFailedMsg == "Failed to compress PDF"
SourceMissingMsg == "Input file not found: input_file"
ZeroDivisionMsg == "float division by zero"
FileNotFoundMsg == "No such file or directory"
JobNotFoundMsg == "Job not found"

\* ------------------------------------------------------------ the invoker
\* compress_with_settings runs the tool once.  What the external process
\* leaves at the output path is the tool's business: on exit 0 a PDF of some
\* size; on a non-zero exit nothing, or a partial file of any size; when the
\* binary is not found the process never starts.
\* subprocess.run(cmd, check=True, capture_output=True, text=True): the
\* process as it ends.  "exit" is its return code (-1: the executable was not
\* found and no process ran), "stderr" what it wrote to standard error.
RunGhostscript(installed) ==
    IF ~installed
    THEN {[located |-> FALSE, exit |-> -1, stderr |-> "", wrote |-> FALSE, size |-> 0]}
    ELSE {[located |-> TRUE, exit |-> 0, stderr |-> "", wrote |-> TRUE, size |-> s] :
             s \in 1..MaxSize}
         \cup {[located |-> TRUE, exit |-> 1, stderr |-> "stderr", wrote |-> FALSE,
                size |-> 0]}
         \cup {[located |-> TRUE, exit |-> 1, stderr |-> "stderr", wrote |-> TRUE,
                size |-> s] : s \in Sizes}

\* The mutant of ExitOk that takes every run that started for a success.
ExitIgnored(p) == p.located

\* check=True: CalledProcessError unless the return code is 0.
ExitOk(p) == p.located /\ p.exit = 0

\* Lines 137-150: (True, "Compression successful"), or the message of the
\* except clause taken; "diag" is the stderr text the message embeds.
Outcome(p) ==
    [ok |-> ExitOk(p),
     msg |-> IF ~p.located THEN ToolMissingMsg
             ELSE IF ExitOk(p) THEN CompressionOkMsg ELSE ToolFailedMsg,
     diag |-> IF p.located /\ ~ExitOk(p) THEN p.stderr ELSE "",
     runs |-> 1, located |-> p.located, exit |-> p.exit, stderr |-> p.stderr,
     wrote |-> p.wrote, size |-> p.size]

compress_with_settings(installed) == {Outcome(p) : p \in RunGhostscript(installed)}

\* The tool writes its output only into a directory that exists.
CanWrite(dir, o) == o.wrote => PathExists(dir[DirPath])

\* The output path after one invocation.
AfterInvocation(f, o) == IF o.wrote THEN File(o.size) ELSE f

\* ------------------------------------------------------------ percentages
\* A reduction percentage, kept exact as numerator / denominator.
ZeroPercent == [num |-> 0, den |-> 1]
Percent(initial, final) == [num |-> (initial - final) * 100, den |-> initial]

\* ------------------------------------------------------ CompressionResult
NoPath == "None"
NoResult ==
    [success |-> FALSE, initial_size_mb |-> 0, final_size_mb |-> 0,
     reduction_percent |-> ZeroPercent, output_path |-> NoPath,
     config_used |-> NoConfig, target_reached |-> FALSE, error |-> "no result"]

SourceMissingResult ==
    [success |-> FALSE, initial_size_mb |-> 0, final_size_mb |-> 0,
     reduction_percent |-> ZeroPercent, output_path |-> NoPath,
     config_used |-> NoConfig, target_reached |-> FALSE, error |-> SourceMissingMsg]

EarlyStopResult(initial, size, out, cfg) ==
    [success |-> TRUE, initial_size_mb |-> initial, final_size_mb |-> size,
     reduction_percent |-> Percent(initial, size), output_path |-> out,
     config_used |-> cfg, target_reached |-> TRUE, error |-> ""]

\* reduction = (...) * 100 if initial_size > 0 else 0
FinalReduction(initial, final) ==
    IF initial > 0 THEN Percent(initial, final) ELSE ZeroPercent

ExhaustedResult(initial, final, out, best, target) ==
    [success |-> TRUE, initial_size_mb |-> initial, final_size_mb |-> final,
     reduction_percent |-> FinalReduction(initial, final), output_path |-> out,
     config_used |-> best, target_reached |-> (final <= target), error |-> ""]

FailedResult(initial) ==
    [success |-> FALSE, initial_size_mb |-> initial, final_size_mb |-> 0,
     reduction_percent |-> ZeroPercent, output_path |-> NoPath,
     config_used |-> NoConfig, target_reached |-> FALSE, error |-> CompressionFailedMsg]

\* ------------------------------------------------------------- the search
NoSearch ==
    [pc |-> "none", dir |-> 1, inp |-> "input.pdf", out |-> "output.pdf",
     target |-> 1, initial |-> 0, i |-> 0, best |-> NoConfig,
     ret |-> "", exc |-> "", result |-> NoResult]

NoHist ==
    [in0 |-> NoFile, out0 |-> NoFile, invoked |-> <<>>, lastRes |-> "",
     lastMeasured |-> 0, anyOk |-> FALSE, anyFail |-> FALSE,
     qualified |-> 0, tainted |-> FALSE]

\* A call compress_to_target_size(input_file, output_file, target_size_mb).
CallSearch(dir, inp, out, target) ==
    [NoSearch EXCEPT !.pc = "start", !.dir = dir, !.inp = inp, !.out = out,
                     !.target = target]

CallHist(files, inp, out) ==
    [NoHist EXCEPT !.in0 = files[inp], !.out0 = files[out]]

\* The ladder entries the loop of this configuration walks.
Attempts == AttemptList(EffectiveConfigs(progressive_configs), max_attempts)

\* The mutant of InputExists that skips the existence check.
InputAssumedPresent(f) == TRUE

\* if not os.path.exists(input_file)
InputExists(f) == PathExists(f)

\* if output_size <= target_size_mb
TargetMet(size, target) == size <= target

\* The mutant of AfterFailedAttempt that leaves the loop on the first failure.
AbortAfterFailedAttempt(i, n) == n

\* if not success: ...; continue  -- the loop goes on with the next entry.
AfterFailedAttempt(i, n) == i + 1

\* Lines 169-205: the existence check, the initial size, the ladder.
SearchEnter ==
    /\ search.pc = "start"
    /\ IF ~InputExists(fs[search.dir][search.inp])
       THEN search' = [search EXCEPT !.pc = "returned", !.ret = "missing",
                                     !.result = SourceMissingResult]
       ELSE IF ~PathExists(fs[search.dir][search.inp])
            THEN search' = [search EXCEPT !.pc = "raised", !.exc = FileNotFoundMsg]
            ELSE search' = [search EXCEPT !.pc = "loop", !.i = 0, !.best = NoConfig,
                              !.initial = get_file_size_mb(fs[search.dir][search.inp])]
    /\ UNCHANGED <<config, calls, poll, op, sweep, fs, hist,
                   jobs, nextId, now, req>>

\* Lines 207-231: one iteration of the loop: invoke, measure, decide.
SearchAttempt ==
    /\ search.pc = "loop"
    /\ search.i < Len(Attempts)
    /\ \E o \in compress_with_settings(gsInstalled) :
        LET cfg == Attempts[search.i + 1]
            d == search.dir
            outFile == AfterInvocation(fs[d][search.out], o)
            output_size == get_file_size_mb(outFile)
            h1 == [hist EXCEPT !.invoked = Append(@, cfg),
                               !.lastRes = IF o.ok THEN "ok" ELSE "failed",
                               !.anyOk = @ \/ o.ok,
                               !.anyFail = @ \/ ~o.ok,
                               !.tainted = IF o.wrote THEN ~o.ok ELSE @]
        IN  /\ CanWrite(fs[d], o)
            /\ fs' = [fs EXCEPT ![d][search.out] = outFile]
            /\ IF ~o.ok
               THEN /\ search' = [search EXCEPT
                                    !.i = AfterFailedAttempt(search.i, Len(Attempts))]
                    /\ hist' = h1
               ELSE /\ hist' = [h1 EXCEPT !.lastMeasured = output_size,
                                   !.qualified = IF output_size <= search.target
                                                 THEN @ + 1 ELSE @]
                    /\ IF TargetMet(output_size, search.target)
                       THEN IF search.initial = 0
                            THEN search' = [search EXCEPT !.pc = "raised",
                                                          !.exc = ZeroDivisionMsg]
                            ELSE search' = [search EXCEPT !.pc = "returned",
                                   !.ret = "early",
                                   !.result = EarlyStopResult(search.initial,
                                                 output_size, search.out, cfg)]
                       ELSE search' = [search EXCEPT !.best = cfg, !.i = @ + 1]
    /\ UNCHANGED <<config, calls, poll, op, sweep, jobs, nextId,
                   now, req>>

\* Lines 233-260: the loop is exhausted; whatever is at the output path decides.
SearchFinal ==
    /\ search.pc = "loop"
    /\ search.i >= Len(Attempts)
    /\ LET outFile == fs[search.dir][search.out]
       IN  IF PathExists(outFile)
           THEN search' = [search EXCEPT !.pc = "returned", !.ret = "exhausted",
                    !.result = ExhaustedResult(search.initial,
                                  get_file_size_mb(outFile), search.out,
                                  search.best, search.target)]
           ELSE search' = [search EXCEPT !.pc = "returned", !.ret = "failed",
                                         !.result = FailedResult(search.initial)]
    /\ UNCHANGED <<config, calls, poll, op, sweep, fs, hist,
                   jobs, nextId, now, req>>

SearchDone == search.pc \in {"returned", "raised"}

\* ------------------------------------------------------------- job store
\* JobInfo; present = FALSE stands for "no record under this id".
NoJob == [present |-> FALSE, created_at |-> 0, temp_dir |-> 0, status |-> "pending",
          progress |-> 0, message |-> "", output_file |-> NoPath]

\* FileManager.create_job: the record a fresh id gets.
NewJob(id, t) == [NoJob EXCEPT !.present = TRUE, !.created_at = t, !.temp_dir = id]

\* The mutant of create_job that starts the dictionary afresh.
create_job_replacing(js, id, t) ==
    [j \in JobIds |-> IF j = id THEN NewJob(id, t) ELSE NoJob]

create_job(js, id, t) == [js EXCEPT ![id] = NewJob(id, t)]

\* The mutant of update_job that writes every field, the ones not passed
\* falling back to their defaults.
update_job_overwriting(js, id, upd) ==
    IF js[id].present
    THEN [js EXCEPT ![id] = [f \in DOMAIN @ |->
              IF f \in DOMAIN upd THEN upd[f]
              ELSE IF f \in {"status", "progress", "message", "output_file"}
                   THEN NoJob[f] ELSE @[f]]]
    ELSE js

\* FileManager.update_job: upd holds the fields passed as not None.
update_job(js, id, upd) ==
    IF js[id].present
    THEN [js EXCEPT ![id] = [f \in DOMAIN @ |-> IF f \in DOMAIN upd THEN upd[f] ELSE @[f]]]
    ELSE js

\* The mutant of cleanup_dir with one directory shared by every job.
cleanup_dir_shared(files, js, id) ==
    IF js[id].present THEN [j \in JobIds |-> EmptyDir] ELSE files

\* The mutant of cleanup_dir that leaves the directory in place.
cleanup_dir_kept(files, js, id) == files

\* The mutant of cleanup_job that leaves the record in the store.
cleanup_job_keeping(js, id) == js

\* FileManager.cleanup_job: the record and the directory go together.
cleanup_job(js, id) == [js EXCEPT ![id] = NoJob]
cleanup_dir(files, js, id) ==
    IF js[id].present THEN [files EXCEPT ![id] = EmptyDir] ELSE files

\* The mutant of OldJobs that evicts at the boundary.
OldJobsInclusive(js, t) ==
    {j \in JobIds : js[j].present /\ js[j].created_at <= t - MaxAge}

\* The jobs cleanup_old_jobs lists: created_at < now - max_age.
OldJobs(js, t) == {j \in JobIds : js[j].present /\ js[j].created_at < t - MaxAge}

\* ------------------------------------------------ the job store, called directly
\* No direct call yet.  "known" tells whether the id named a record when the
\* call was made, "upd" holds the fields a call of update_job passed, "ret" is
\* what the call returned ("None", "job", "path"), "raised" the exception it
\* raised, "changed" whether it changed the records or the files, "count" the
\* number cleanup_old_jobs returned, "evicted" the number of records that
\* call popped itself, "at" the instant its cutoff was taken.
\* "n" counts the direct calls; a behaviour makes at most MaxCalls of them.
\* "tool" is the outcome of a direct call of compress_with_settings.
NoOp == [name |-> "", id |-> 0, known |-> FALSE, upd |-> <<>>, ret |-> "",
         raised |-> "", changed |-> FALSE, count |-> 0, evicted |-> 0, at |-> 0,
         n |-> 0, tool |-> <<>>]

\* A call with a job id, and a step of cleanup_old_jobs.
Call(name, js, id) ==
    [NoOp EXCEPT !.name = name, !.id = id, !.known = js[id].present, !.n = op.n + 1]
Called(name) == [NoOp EXCEPT !.name = name, !.n = op.n]

\* The fields update_job takes, and the values the direct calls pass.
Fields == {"status", "progress", "message", "output_file"}
PassedValues == [status |-> "processing", progress |-> 50, message |-> "msg",
                 output_file |-> "output.pdf"]
Updates == {[f \in D |-> PassedValues[f]] : D \in (SUBSET Fields) \ {{}}}

\* get_job: the record, or None.
get_job(js, id) == IF js[id].present THEN "job" ELSE "None"

\* get_job_file_path: the path inside the job's directory; ValueError when
\* there is no record.
get_job_file_path(js, id) ==
    IF js[id].present THEN [ret |-> "path", raised |-> ""]
    ELSE [ret |-> "", raised |-> JobNotFoundMsg]

\* get_output_file: the recorded output file if it exists on disk, else None.
get_output_file(js, files, id) ==
    IF js[id].present /\ js[id].output_file # NoPath
       /\ PathExists(files[id][js[id].output_file])
    THEN "path" ELSE "None"

StoreCreateJob ==
    /\ op.n < MaxCalls
    /\ nextId <= MaxJobs
    /\ jobs' = create_job(jobs, nextId, now)
    /\ fs' = [fs EXCEPT ![nextId] = NewDir]
    /\ nextId' = nextId + 1
    /\ op' = [Call("create_job", jobs, nextId) EXCEPT !.ret = "job", !.changed = TRUE]
    /\ UNCHANGED <<config, calls, search, hist, now, req, poll, sweep>>

StoreGetJob ==
    /\ op.n < MaxCalls
    /\ \E id \in JobIds :
        op' = [Call("get_job", jobs, id) EXCEPT !.ret = get_job(jobs, id)]
    /\ UNCHANGED <<config, calls, fs, search, hist, jobs, nextId, now, req, poll, sweep>>

StoreUpdateJob ==
    /\ op.n < MaxCalls
    /\ \E id \in JobIds, upd \in Updates :
        /\ jobs' = update_job(jobs, id, upd)
        /\ op' = [Call("update_job", jobs, id) EXCEPT !.upd = upd,
                      !.ret = get_job(jobs, id),
                      !.changed = (update_job(jobs, id, upd) # jobs)]
    /\ UNCHANGED <<config, calls, fs, search, hist, nextId, now, req, poll, sweep>>

StoreGetJobFilePath ==
    /\ op.n < MaxCalls
    /\ \E id \in JobIds :
        op' = [Call("get_job_file_path", jobs, id) EXCEPT
                 !.ret = get_job_file_path(jobs, id).ret,
                 !.raised = get_job_file_path(jobs, id).raised]
    /\ UNCHANGED <<config, calls, fs, search, hist, jobs, nextId, now, req, poll, sweep>>

\* save_uploaded_file: get_job_file_path, then the content is written.
StoreSaveUploadedFile ==
    /\ op.n < MaxCalls
    /\ \E id \in JobIds :
        LET path == get_job_file_path(jobs, id)
            files == IF path.raised = "" THEN [fs EXCEPT ![id]["output.pdf"] = File(1)]
                     ELSE fs
        IN  /\ fs' = files
            /\ op' = [Call("save_uploaded_file", jobs, id) EXCEPT
                        !.ret = path.ret, !.raised = path.raised,
                        !.changed = (files # fs)]
    /\ UNCHANGED <<config, calls, search, hist, jobs, nextId, now, req, poll, sweep>>

StoreCleanupJob ==
    /\ op.n < MaxCalls
    /\ \E id \in JobIds :
        /\ jobs' = cleanup_job(jobs, id)
        /\ fs' = cleanup_dir(fs, jobs, id)
        /\ op' = [Call("cleanup_job", jobs, id) EXCEPT !.ret = "None",
                      !.changed = (cleanup_job(jobs, id) # jobs
                                   \/ cleanup_dir(fs, jobs, id) # fs)]
    /\ UNCHANGED <<config, calls, search, hist, nextId, now, req, poll, sweep>>

StoreGetOutputFile ==
    /\ op.n < MaxCalls
    /\ \E id \in JobIds :
        op' = [Call("get_output_file", jobs, id) EXCEPT
                 !.ret = get_output_file(jobs, fs, id)]
    /\ UNCHANGED <<config, calls, fs, search, hist, jobs, nextId, now, req, poll, sweep>>

\* compress_with_settings called directly on the files of the search's call:
\* "tool" keeps what the run did and what the call returned.
Invoke ==
    /\ op.n < MaxCalls
    /\ \E o \in compress_with_settings(gsInstalled) :
        /\ CanWrite(fs[search.dir], o)
        /\ fs' = [fs EXCEPT ![search.dir][search.out] = AfterInvocation(@, o)]
        /\ op' = [Called("compress_with_settings") EXCEPT !.n = op.n + 1,
                      !.ret = IF o.ok THEN "True" ELSE "False", !.tool = o]
    /\ UNCHANGED <<config, calls, search, hist, jobs, nextId, now, req, poll, sweep>>

\* --------------------------------------------- cleanup_old_jobs, step by step
\* The call takes the lock to list the old jobs, releases it, and then calls
\* cleanup_job for each listed id: other callers can run in between.
NoSweep == [pc |-> "idle", todo |-> {}, cleaned |-> 0, evicted |-> 0, at |-> 0]

\* Lines 133-145: the early return when cleanup is disabled; else the cutoff
\* and the list.
SweepList ==
    /\ sweep.pc = "idle"
    /\ IF ~cleanup_enabled
       THEN /\ op' = [Called("cleanup_old_jobs") EXCEPT !.at = now]
            /\ UNCHANGED sweep
       ELSE /\ sweep' = [NoSweep EXCEPT !.pc = "listed", !.at = now,
                                        !.todo = OldJobs(jobs, now)]
            /\ op' = [Called("sweep_list") EXCEPT !.at = now]
    /\ UNCHANGED <<config, calls, fs, search, hist, jobs, nextId, now, req, poll>>

\* Lines 147-149: cleanup_job(job_id); cleaned += 1, in the order of the list.
SweepRemove ==
    /\ sweep.pc = "listed"
    /\ sweep.todo # {}
    /\ LET id == CHOOSE j \in sweep.todo : \A k \in sweep.todo : j <= k
       IN  /\ jobs' = cleanup_job(jobs, id)
           /\ fs' = cleanup_dir(fs, jobs, id)
           /\ sweep' = [sweep EXCEPT !.todo = @ \ {id}, !.cleaned = @ + 1,
                           !.evicted = IF jobs[id].present THEN @ + 1 ELSE @]
           /\ op' = [Called("sweep_remove") EXCEPT !.id = id, !.at = sweep.at,
                                                   !.known = jobs[id].present]
    /\ UNCHANGED <<config, calls, search, hist, nextId, now, req, poll>>

\* Line 154: return cleaned.
SweepReturn ==
    /\ sweep.pc = "listed"
    /\ sweep.todo = {}
    /\ op' = [Called("cleanup_old_jobs") EXCEPT !.count = sweep.cleaned,
                          !.evicted = sweep.evicted, !.at = sweep.at]
    /\ sweep' = NoSweep
    /\ UNCHANGED <<config, calls, fs, search, hist, jobs, nextId, now, req, poll>>

\* ------------------------------------------------------- request handlers
\* upload.max_file_size_mb, in size units: the largest upload accepted.
UploadLimit == MaxSize

NoReq ==
    [pc |-> "idle", kind |-> "", job |-> 0, size |-> 0, target |-> 1,
     auto |-> FALSE, out |-> "output.pdf", files |-> 0, idx |-> 0,
     total |-> 0, saved |-> 0, result |-> NoResult, exc |-> "",
     status_code |-> 0, code |-> "", detail |-> ""]

\* The response that ends a request.
Respond(r, status, code, detail) ==
    [r EXCEPT !.pc = "done", !.status_code = status, !.code = code, !.detail = detail]

Idle == req.pc = "idle"

\* The mutant of Checkpoint that reports the assembled PDF below the
\* checkpoint of the saved uploads.
CheckpointRegressing(stage) ==
    CASE stage = "received" -> 10
      [] stage = "saved" -> 20
      [] stage = "assembled" -> 15
      [] stage = "compressing" -> 60
      [] stage = "finished" -> 100

\* The progress value each stage of a flow reports: compress_pdf reports
\* "received" and "finished"; images_to_pdf "saved", "assembled",
\* "compressing" (when it compresses) and "finished".
Checkpoint(stage) ==
    CASE stage = "received" -> 10
      [] stage = "saved" -> 20
      [] stage = "assembled" -> 50
      [] stage = "compressing" -> 60
      [] stage = "finished" -> 100

\* The mutant of JobSucceeded that takes every result for a success.
JobSucceededAlways(result) == TRUE

\* The mutant of JobSucceeded that takes a missed target for a failure.
JobSucceededOnTarget(result) == result.success /\ result.target_reached

\* if result.success
JobSucceeded(result) == result.success

\* The handler in progress is suspended at an await (UploadFile.read), or no
\* handler runs: the event loop can run another task.
Awaiting ==
    \/ req.pc = "idle"
    \/ req.pc = "im_read"

\* compress_pdf, lines 69-87: the request is refused before any job exists.
CompressPdfReject ==
    /\ Idle
    /\ \E pdf \in BOOLEAN, size \in 0..(UploadLimit + 1) :
        /\ ~pdf \/ size > UploadLimit
        /\ req' = IF ~pdf
                  THEN Respond([NoReq EXCEPT !.kind = "compress_pdf"], 400,
                               "INVALID_FILE_TYPE", "Only PDF files are allowed")
                  ELSE Respond([NoReq EXCEPT !.kind = "compress_pdf", !.size = size],
                               413, "FILE_TOO_LARGE", "File exceeds maximum size")
    /\ UNCHANGED <<config, calls, poll, op, sweep, fs, search,
                   hist, jobs, nextId, now>>

\* compress_pdf, lines 89-104: create the job, save the upload, mark it
\* processing, and enter the search (auto) or the single invocation (manual).
\* The sanitized output name is "input" (the output path is the input path)
\* or any other name.
CompressPdfStart ==
    /\ Idle
    /\ nextId <= MaxRequests
    /\ \E size \in 0..UploadLimit, target \in Targets, auto \in BOOLEAN,
          out \in {"input.pdf", "output.pdf"} :
        LET id == nextId
            files == [NewDir EXCEPT !["input.pdf"] = File(size)]
        IN  /\ jobs' = update_job(create_job(jobs, id, now), id,
                                  [status |-> "processing", progress |-> Checkpoint("received")])
            /\ fs' = [fs EXCEPT ![id] = files]
            /\ req' = [NoReq EXCEPT !.pc = IF auto THEN "cp_search" ELSE "cp_manual",
                                    !.kind = "compress_pdf", !.job = id,
                                    !.size = size, !.target = target,
                                    !.auto = auto, !.out = out]
            /\ search' = IF auto THEN CallSearch(id, "input.pdf", out, target)
                         ELSE NoSearch
            /\ hist' = IF auto THEN CallHist(files, "input.pdf", out) ELSE NoHist
    /\ nextId' = nextId + 1
    /\ UNCHANGED <<config, calls, poll, op, sweep, now>>

\* compress_pdf, lines 106-134: the manual-settings path.
CompressPdfManual ==
    /\ req.pc = "cp_manual"
    /\ \E o \in compress_with_settings(gsInstalled) :
        LET d == req.job
            outFile == AfterInvocation(fs[d][req.out], o)
            final_size == get_file_size_mb(outFile)
        IN  /\ fs' = [fs EXCEPT ![d][req.out] = outFile]
            /\ IF o.ok
               THEN IF req.size = 0
                    THEN req' = [req EXCEPT !.pc = "cp_result", !.exc = ZeroDivisionMsg]
                    ELSE req' = [req EXCEPT !.pc = "cp_result",
                            !.result = [NoResult EXCEPT !.success = TRUE,
                               !.initial_size_mb = req.size,
                               !.final_size_mb = final_size,
                               !.reduction_percent = Percent(req.size, final_size),
                               !.config_used = Cfg(72, 50, "Custom"),
                               !.output_path = req.out,
                               !.target_reached = (final_size <= req.target),
                               !.error = ""]]
               ELSE req' = [req EXCEPT !.pc = "cp_result",
                            !.result = [NoResult EXCEPT !.initial_size_mb = req.size,
                                                        !.error = o.msg]]
    /\ UNCHANGED <<config, calls, poll, op, sweep, search, hist,
                   jobs, nextId, now>>

\* What the try block of the handler in progress got: a result or an exception.
FlowExc == IF req.pc \in {"cp_search", "im_search"} THEN search.exc ELSE req.exc
FlowResult == IF req.pc \in {"cp_search", "im_search"} THEN search.result ELSE req.result

\* compress_pdf, lines 136-181: the job is marked by the outcome.
CompressPdfFinish ==
    /\ \/ req.pc = "cp_result"
       \/ req.pc = "cp_search" /\ SearchDone
    /\ IF FlowExc # ""
       THEN /\ jobs' = update_job(jobs, req.job, [status |-> "failed", message |-> FlowExc])
            /\ req' = Respond(req, 500, "COMPRESSION_FAILED", FlowExc)
       ELSE IF JobSucceeded(FlowResult)
            THEN /\ jobs' = update_job(jobs, req.job,
                               [status |-> "completed", progress |-> Checkpoint("finished"),
                                output_file |-> req.out,
                                message |-> "Compression successful"])
                 /\ req' = Respond([req EXCEPT !.result = FlowResult], 200, "",
                                   "PDF compressed successfully")
            ELSE /\ jobs' = update_job(jobs, req.job,
                               [status |-> "failed", message |-> FlowResult.error])
                 /\ req' = Respond([req EXCEPT !.result = FlowResult], 500,
                                   "COMPRESSION_FAILED", FlowResult.error)
    /\ UNCHANGED <<config, calls, poll, op, sweep, fs, search,
                   hist, nextId, now>>

\* An uploaded image's size: small, so large that any second image exceeds
\* the upload limit, or above the limit by itself.
UploadSizes == {1, UploadLimit, UploadLimit + 1}

\* images_to_pdf, lines 206-215: the job is created before any file is read.
\* req.files is the number of files uploaded.
ImagesStart ==
    /\ Idle
    /\ nextId <= MaxRequests
    /\ \E n \in 1..MaxFiles :
        req' = [NoReq EXCEPT !.pc = "im_loop", !.kind = "images_to_pdf",
                             !.job = nextId, !.files = n, !.idx = 1]
    /\ jobs' = create_job(jobs, nextId, now)
    /\ fs' = [fs EXCEPT ![nextId] = NewDir]
    /\ nextId' = nextId + 1
    /\ UNCHANGED <<config, calls, poll, op, sweep, search, hist,
                   now>>

\* images_to_pdf, lines 219-228: the next file is skipped (no name, or an
\* extension that is not allowed) or read, which suspends the handler.
ImagesNextFile ==
    /\ req.pc = "im_loop"
    /\ req.idx <= req.files
    /\ \E valid \in BOOLEAN :
        req' = IF valid THEN [req EXCEPT !.pc = "im_read"]
               ELSE [req EXCEPT !.idx = @ + 1]
    /\ UNCHANGED <<config, calls, poll, op, sweep, fs, search,
                   hist, jobs, nextId, now>>

\* images_to_pdf, lines 228-245: the content is there: total size check, save.
ImagesReadFile ==
    /\ req.pc = "im_read"
    /\ \E size \in UploadSizes :
        LET total_size == req.total + size
            id == req.job
        IN  IF total_size > UploadLimit
            THEN /\ jobs' = cleanup_job(jobs, id)
                 /\ fs' = cleanup_dir(fs, jobs, id)
                 /\ req' = Respond([req EXCEPT !.total = total_size], 413,
                                   "FILE_TOO_LARGE", "Total size exceeds maximum")
            ELSE IF ~jobs[id].present
            THEN /\ req' = Respond([req EXCEPT !.total = total_size,
                                               !.exc = JobNotFoundMsg],
                                   500, "INTERNAL_SERVER_ERROR", JobNotFoundMsg)
                 /\ UNCHANGED <<jobs, fs>>
            ELSE /\ fs' = [fs EXCEPT ![id][ImagePath(req.idx)] = File(size)]
                 /\ req' = [req EXCEPT !.pc = "im_loop", !.total = total_size,
                                       !.saved = @ + 1, !.idx = @ + 1]
                 /\ UNCHANGED jobs
    /\ UNCHANGED <<config, calls, poll, op, sweep, search, hist,
                   nextId, now>>

\* images_to_pdf, lines 247-262: after the loop.
ImagesAccept ==
    /\ req.pc = "im_loop"
    /\ req.idx > req.files
    /\ LET id == req.job
       IN  IF req.saved = 0
           THEN /\ jobs' = cleanup_job(jobs, id)
                /\ fs' = cleanup_dir(fs, jobs, id)
                /\ req' = Respond(req, 400, "NO_VALID_IMAGES",
                                  "No valid image files found")
           ELSE IF ~jobs[id].present
           THEN /\ req' = Respond([req EXCEPT !.exc = JobNotFoundMsg], 500,
                                  "INTERNAL_SERVER_ERROR", JobNotFoundMsg)
                /\ UNCHANGED <<jobs, fs>>
           ELSE /\ jobs' = update_job(jobs, id,
                               [status |-> "processing", progress |-> Checkpoint("saved")])
                /\ req' = [req EXCEPT !.pc = "im_convert"]
                /\ UNCHANGED fs
    /\ UNCHANGED <<config, calls, poll, op, sweep, search, hist,
                   nextId, now>>

\* convert_images_to_pdf as the handler sees it: a failure naming an image, or
\* the assembled PDF of some size at the output path.
convert_images_to_pdf ==
    {[success |-> FALSE, size_mb |-> 0, error |-> "Failed to process image"]}
    \cup {[success |-> TRUE, size_mb |-> s, error |-> ""] : s \in 1..MaxSize}

\* images_to_pdf, lines 266-284: assemble, then decide whether to compress.
ImagesConvert ==
    /\ req.pc = "im_convert"
    /\ \E c \in convert_images_to_pdf, target \in Targets, auto \in BOOLEAN :
        LET id == req.job
            files == [fs[id] EXCEPT !["output_temp.pdf"] = File(c.size_mb)]
        IN  IF ~c.success
            THEN /\ jobs' = update_job(jobs, id,
                                [status |-> "failed", message |-> c.error])
                 /\ req' = Respond(req, 500, "CONVERSION_FAILED", c.error)
                 /\ UNCHANGED <<fs, search, hist>>
            ELSE /\ fs' = [fs EXCEPT ![id] = files]
                 /\ IF auto /\ c.size_mb > target
                    THEN /\ jobs' = update_job(update_job(jobs, id,
                                            [progress |-> Checkpoint("assembled")]),
                                        id, [progress |-> Checkpoint("compressing"),
                                             message |-> "Compressing PDF..."])
                         /\ req' = [req EXCEPT !.pc = "im_search", !.size = c.size_mb,
                                                !.target = target, !.auto = auto]
                         /\ search' = CallSearch(id, "output_temp.pdf", "output.pdf",
                                                 target)
                         /\ hist' = CallHist(files, "output_temp.pdf", "output.pdf")
                    ELSE /\ jobs' = update_job(jobs, id, [progress |-> Checkpoint("assembled")])
                         /\ req' = [req EXCEPT !.pc = "im_rename", !.size = c.size_mb,
                                                !.target = target, !.auto = auto]
                         /\ UNCHANGED <<search, hist>>
    /\ UNCHANGED <<config, calls, poll, op, sweep, nextId, now>>

\* The mutant of Rename that loses the file.
RenameDropping(files, src, dst) == [files EXCEPT ![src] = NoFile]

\* os.rename(temp_pdf_path, final_pdf_path)
Rename(files, src, dst) == [files EXCEPT ![dst] = files[src], ![src] = NoFile]

\* Lines 298-304: the update that ends an images_to_pdf job, the same on
\* both branches.
ImagesCompleted ==
    [status |-> "completed", progress |-> Checkpoint("finished"),
     output_file |-> "output.pdf", message |-> "PDF created successfully"]

\* Lines 277-279 and 306-315: ImageToPdfResponse, original_size_mb being the
\* assembled size.
ImagesResponse(initial_size, final_size, reduction) ==
    [NoResult EXCEPT !.success = TRUE, !.initial_size_mb = initial_size,
                     !.final_size_mb = final_size, !.reduction_percent = reduction,
                     !.output_path = "output.pdf"]

\* images_to_pdf, lines 285-325: keep the compressed file or fall back to the
\* uncompressed intermediate, then mark the job.
ImagesFinish ==
    /\ \/ req.pc = "im_rename"
       \/ req.pc = "im_search" /\ SearchDone
    /\ LET id == req.job
       IN  IF FlowExc # ""
           THEN /\ jobs' = update_job(jobs, id, [status |-> "failed", message |-> FlowExc])
                /\ req' = Respond(req, 500, "CONVERSION_FAILED", FlowExc)
                /\ UNCHANGED fs
           ELSE IF req.pc = "im_search" /\ JobSucceeded(FlowResult)
           THEN /\ fs' = [fs EXCEPT ![id]["output_temp.pdf"] = NoFile]
                /\ jobs' = update_job(jobs, id, ImagesCompleted)
                /\ req' = Respond([req EXCEPT !.result =
                                     ImagesResponse(req.size, FlowResult.final_size_mb,
                                                    FlowResult.reduction_percent)],
                                  200, "", "PDF created successfully")
           ELSE IF ~PathExists(fs[id]["output_temp.pdf"])
           THEN /\ jobs' = update_job(jobs, id,
                               [status |-> "failed", message |-> FileNotFoundMsg])
                /\ req' = Respond(req, 500, "CONVERSION_FAILED", FileNotFoundMsg)
                /\ UNCHANGED fs
           ELSE /\ fs' = [fs EXCEPT ![id] = Rename(@, "output_temp.pdf", "output.pdf")]
                /\ jobs' = update_job(jobs, id, ImagesCompleted)
                /\ req' = Respond([req EXCEPT !.result =
                                     ImagesResponse(req.size, req.size, ZeroPercent)],
                                  200, "", "PDF created successfully")
    /\ UNCHANGED <<config, calls, poll, op, sweep, search, hist,
                   nextId, now>>

\* The response is sent and the handler's frame, with the search it ran, is gone.
RequestEnd ==
    /\ req.pc = "done"
    /\ req' = NoReq
    /\ search' = NoSearch
    /\ hist' = NoHist
    /\ UNCHANGED <<config, calls, poll, op, sweep, fs, jobs,
                   nextId, now>>

\* ---------------------------------------------------------- cleanup task
\* cleanup_task: cleanup_old_jobs runs on the event loop between handlers'
\* synchronous sections and removes every listed job.
CleanupOldJobs ==
    /\ Awaiting
    /\ OldJobs(jobs, now) # {}
    /\ jobs' = [j \in JobIds |-> IF j \in OldJobs(jobs, now) THEN NoJob ELSE jobs[j]]
    /\ fs' = [j \in JobIds |-> IF j \in OldJobs(jobs, now) THEN EmptyDir ELSE fs[j]]
    /\ UNCHANGED <<config, calls, poll, op, sweep, search, hist,
                   nextId, now, req>>

\* Time passes.  Within a handler's synchronous section only create_job reads
\* the clock, at its start, so the clock is advanced between sections.
Tick ==
    /\ Awaiting
    /\ now < MaxTime
    /\ now' = now + 1
    /\ UNCHANGED <<config, calls, poll, op, sweep, fs, search,
                   hist, jobs, nextId, req>>

\* ------------------------------------------- the calls made for one job
\* What the handlers do for a job, as separate calls that can be made for
\* any job in any order: the search on its files, update_job with the
\* handlers' arguments, cleanup_job.  "op" names the job of the last call.
JobCall(name, id) == [Called(name) EXCEPT !.id = id]

\* The arguments the handlers pass to update_job: processing, completed, failed.
HandlerUpdates ==
    {[status |-> "processing", progress |-> Checkpoint("saved")],
     ImagesCompleted,
     [status |-> "failed", message |-> CompressionFailedMsg]}

\* compress_pdf, lines 99-140: compress_to_target_size called on the input
\* and output paths inside the directory of one job.
JobSearch ==
    /\ search.pc = "none"
    /\ \E id \in JobIds, target \in Targets :
        /\ jobs[id].present
        /\ search' = CallSearch(id, "input.pdf", "output.pdf", target)
        /\ hist' = CallHist(fs[id], "input.pdf", "output.pdf")
        /\ op' = JobCall("compress_to_target_size", id)
    /\ UNCHANGED <<config, calls, fs, jobs, nextId, now, req, poll, sweep>>

JobUpdate ==
    /\ \E id \in JobIds, upd \in HandlerUpdates :
        /\ jobs' = update_job(jobs, id, upd)
        /\ op' = [JobCall("update_job", id) EXCEPT
                      !.changed = (update_job(jobs, id, upd) # jobs)]
    /\ UNCHANGED <<config, calls, fs, search, hist, nextId, now, req, poll, sweep>>

JobCleanup ==
    /\ \E id \in JobIds :
        /\ jobs' = cleanup_job(jobs, id)
        /\ fs' = cleanup_dir(fs, jobs, id)
        /\ op' = JobCall("cleanup_job", id)
    /\ UNCHANGED <<config, calls, search, hist, nextId, now, req, poll, sweep>>

\* ---------------------------------------------------------- status polling
\* A status request: none, waiting for the event loop ("pending"), or served
\* with what it observed.  "during" records that the request arrived while
\* the search of that job was in progress.
NoPoll == [pc |-> "none", kind |-> "status", job |-> 0, during |-> FALSE,
           observed |-> ""]

SearchInProgress == search.pc \in {"start", "loop"}

\* A client sends GET /status/{job_id}; the request waits for the event loop.
StatusRequest ==
    /\ poll.pc = "none"
    /\ \E j \in JobIds :
        poll' = [NoPoll EXCEPT !.pc = "pending", !.job = j,
                               !.during = (SearchInProgress /\ req.job = j)]
    /\ UNCHANGED <<config, calls, fs, search, hist, jobs, nextId, now, req, op, sweep>>

\* get_job_status runs when the event loop is free: compress_pdf calls the
\* search synchronously inside its coroutine, so no other handler runs from
\* its "await file.read()" to its response.
GetJobStatus ==
    /\ poll.pc = "pending"
    /\ Awaiting
    /\ poll' = [poll EXCEPT !.pc = "served",
                   !.observed = IF jobs[poll.job].present
                                THEN jobs[poll.job].status ELSE "JOB_NOT_FOUND"]
    /\ UNCHANGED <<config, calls, fs, search, hist, jobs, nextId, now, req, op, sweep>>

\* A status request that arrives while the event loop is free is served at
\* once: get_job_status, 404 JOB_NOT_FOUND when there is no record.
StatusNow ==
    /\ poll.pc = "none"
    /\ Awaiting
    /\ \E j \in JobIds :
        poll' = [NoPoll EXCEPT !.pc = "served", !.job = j,
                    !.observed = IF jobs[j].present
                                 THEN jobs[j].status ELSE "JOB_NOT_FOUND"]
    /\ UNCHANGED <<config, calls, fs, search, hist, jobs, nextId, now, req, op, sweep>>

\* The mutant of download_file's lookup that answers for every job on record.
DownloadLookupAnyJob(js, files, id) == IF js[id].present THEN "path" ELSE "None"

\* download_file, the lookup: file_manager.get_output_file(job_id).
DownloadLookup(js, files, id) == get_output_file(js, files, id)

\* A client sends GET /download/{job_id}; download_file runs when the event
\* loop is free: 404 FILE_NOT_FOUND when get_output_file returns None, else
\* the file is sent.
DownloadFile ==
    /\ poll.pc = "none"
    /\ Awaiting
    /\ \E j \in JobIds :
        poll' = [NoPoll EXCEPT !.pc = "served", !.kind = "download", !.job = j,
                    !.observed = IF DownloadLookup(jobs, fs, j) = "None"
                                 THEN "FILE_NOT_FOUND" ELSE "artifact"]
    /\ UNCHANGED <<config, calls, fs, search, hist, jobs, nextId, now, req, op, sweep>>

\* The client has its answer.
StatusEnd ==
    /\ poll.pc = "served"
    /\ poll' = NoPoll
    /\ UNCHANGED <<config, calls, fs, search, hist, jobs, nextId, now, req, op, sweep>>

\* ------------------------------------------ the job store under threads
\* FileManager guards _jobs with one threading.Lock.  Each caller is a thread
\* at its own line of update_job or cleanup_old_jobs; a step is one statement.
Callers == 1..MaxCallers

\* holder is the thread inside "with self._lock" (0: none); order lists the
\* update_job calls in the order they took the lock.
NoMutex == [holder |-> 0, order |-> <<>>]

\* "done" holds the fields an update_job call has assigned, "written" those
\* among them that went into the record the store holds, "todo" the ids
\* cleanup_old_jobs listed, "step" the statement cleanup_job is at.
NoCaller == [pc |-> "idle", name |-> "", id |-> 0, upd |-> <<>>, found |-> FALSE,
             done |-> {}, written |-> {}, todo |-> {}, step |-> 0, cleaned |-> 0,
             ret |-> ""]

\* The values each thread passes, different from thread to thread.
CallerValues(c) ==
    [status |-> <<"processing", "completed", "failed">>[((c - 1) % 3) + 1],
     progress |-> 10 * c,
     message |-> <<"first", "second", "third">>[((c - 1) % 3) + 1],
     output_file |-> <<"output.pdf", "input.pdf", "temp.pdf">>[((c - 1) % 3) + 1]]
CallerUpdates(c) == {[f \in D |-> CallerValues(c)[f]] : D \in (SUBSET Fields) \ {{}}}

\* The mutant of CanAcquire: a lock that never blocks.
LockIgnored(m) == TRUE

\* "with self._lock" enters when no thread holds the lock.
CanAcquire(m) == m.holder = 0

Acquire(m, c) == [m EXCEPT !.holder = c]
Release(m, c) == IF m.holder = c THEN [m EXCEPT !.holder = 0] ELSE m

\* The assignments of update_job, in the order of the code.
FieldOrder == <<"status", "progress", "message", "output_file">>
NextField(upd, done) ==
    FieldOrder[CHOOSE i \in 1..4 :
                  /\ FieldOrder[i] \in (DOMAIN upd) \ done
                  /\ \A k \in 1..(i - 1) : FieldOrder[k] \notin (DOMAIN upd) \ done]

\* A thread calls update_job(job_id, ...) on a job that was created.
ThreadUpdateCall ==
    \E c \in Callers, id \in 1..(nextId - 1) :
      \E upd \in CallerUpdates(c) :
        /\ callers[c].pc = "idle"
        /\ callers' = [callers EXCEPT ![c] =
                         [NoCaller EXCEPT !.pc = "called", !.name = "update_job",
                                          !.id = id, !.upd = upd]]
        /\ UNCHANGED <<config, fs, search, hist, jobs, nextId, now, req, poll, op,
                       sweep, mutex, conv>>

\* Lines 89-90: with self._lock: job = self._jobs.get(job_id).
ThreadUpdateLock ==
    \E c \in Callers :
        /\ callers[c].pc = "called"
        /\ callers[c].name = "update_job"
        /\ CanAcquire(mutex)
        /\ mutex' = [Acquire(mutex, c) EXCEPT !.order = Append(@, c)]
        /\ callers' = [callers EXCEPT ![c].pc = "locked",
                                      ![c].found = jobs[callers[c].id].present]
        /\ UNCHANGED <<config, fs, search, hist, jobs, nextId, now, req, poll, op,
                       sweep, conv>>

\* Lines 91-99: one assignment "job.<field> = <field>" of a field passed as
\* not None.  The assignment goes to the object the thread got at line 90; the
\* store shows it as long as it still holds that object.
ThreadUpdateAssign ==
    \E c \in Callers :
        LET me == callers[c]
            f == NextField(me.upd, me.done)
            held == jobs[me.id].present
        IN  /\ me.pc = "locked"
            /\ me.name = "update_job"
            /\ me.found
            /\ (DOMAIN me.upd) \ me.done # {}
            /\ jobs' = IF held THEN [jobs EXCEPT ![me.id][f] = me.upd[f]] ELSE jobs
            /\ callers' = [callers EXCEPT ![c].done = @ \cup {f},
                              ![c].written = IF held THEN @ \cup {f} ELSE @]
            /\ UNCHANGED <<config, fs, search, hist, nextId, now, req, poll, op,
                           sweep, mutex, conv>>

\* Lines 90-101: the lock is released after the last assignment, or at once
\* when there is no record; return job.
ThreadUpdateRelease ==
    \E c \in Callers :
        LET me == callers[c]
        IN  /\ me.pc = "locked"
            /\ me.name = "update_job"
            /\ ~me.found \/ (DOMAIN me.upd) \ me.done = {}
            /\ mutex' = Release(mutex, c)
            /\ callers' = [callers EXCEPT ![c].pc = "returned",
                              ![c].ret = IF me.found THEN "job" ELSE "None"]
            /\ UNCHANGED <<config, fs, search, hist, jobs, nextId, now, req, poll, op,
                           sweep, conv>>

\* A thread calls cleanup_old_jobs(); line 133: cleanup is enabled.
ThreadSweepCall ==
    \E c \in Callers :
        /\ cleanup_enabled
        /\ callers[c].pc = "idle"
        /\ callers' = [callers EXCEPT ![c] =
                         [NoCaller EXCEPT !.pc = "called", !.name = "cleanup_old_jobs"]]
        /\ UNCHANGED <<config, fs, search, hist, jobs, nextId, now, req, poll, op,
                       sweep, mutex, conv>>

\* Lines 136-145: the cutoff, and under the lock the list of the old jobs.
ThreadSweepList ==
    \E c \in Callers :
        /\ callers[c].pc = "called"
        /\ callers[c].name = "cleanup_old_jobs"
        /\ CanAcquire(mutex)
        /\ callers' = [callers EXCEPT ![c].pc = "listed",
                                      ![c].todo = OldJobs(jobs, now)]
        /\ UNCHANGED <<config, fs, search, hist, jobs, nextId, now, req, poll, op,
                       sweep, mutex, conv>>

\* The mutant of CleanupOrder that removes the directory first.
CleanupOrderDirFirst == <<"rmtree", "pop">>

\* cleanup_job, lines 126-128: the record is popped, then its directory removed.
CleanupOrder == <<"pop", "rmtree">>

\* Lines 147-148 and 125: cleanup_job(job_id) of the next listed id takes the lock.
ThreadCleanupLock ==
    \E c \in Callers :
        LET me == callers[c]
            id == CHOOSE j \in me.todo : \A k \in me.todo : j <= k
        IN  /\ me.pc = "listed"
            /\ me.todo # {}
            /\ CanAcquire(mutex)
            /\ mutex' = Acquire(mutex, c)
            /\ callers' = [callers EXCEPT ![c].pc = "cleaning", ![c].id = id,
                              ![c].step = 1, ![c].found = jobs[id].present]
            /\ UNCHANGED <<config, fs, search, hist, jobs, nextId, now, req, poll, op,
                           sweep, conv>>

\* Lines 126-128: job = self._jobs.pop(job_id, None); if job and its
\* directory exists: shutil.rmtree.
ThreadCleanupStep ==
    \E c \in Callers :
        LET me == callers[c]
        IN  /\ me.pc = "cleaning"
            /\ me.step <= Len(CleanupOrder)
            /\ IF CleanupOrder[me.step] = "pop"
               THEN jobs' = cleanup_job(jobs, me.id) /\ UNCHANGED fs
               ELSE /\ fs' = IF me.found THEN [fs EXCEPT ![me.id] = EmptyDir] ELSE fs
                    /\ UNCHANGED jobs
            /\ callers' = [callers EXCEPT ![c].step = @ + 1]
            /\ UNCHANGED <<config, search, hist, nextId, now, req, poll, op,
                           sweep, mutex, conv>>

\* Lines 125-129 and 149: the lock is released; cleaned += 1.
ThreadCleanupRelease ==
    \E c \in Callers :
        LET me == callers[c]
        IN  /\ me.pc = "cleaning"
            /\ me.step > Len(CleanupOrder)
            /\ mutex' = Release(mutex, c)
            /\ callers' = [callers EXCEPT ![c].pc = "listed",
                              ![c].todo = @ \ {me.id}, ![c].cleaned = @ + 1]
            /\ UNCHANGED <<config, fs, search, hist, jobs, nextId, now, req, poll, op,
                           sweep, conv>>

\* Line 154: return cleaned.
ThreadSweepReturn ==
    \E c \in Callers :
        /\ callers[c].pc = "listed"
        /\ callers[c].todo = {}
        /\ callers' = [callers EXCEPT ![c].pc = "returned", ![c].ret = "count"]
        /\ UNCHANGED <<config, fs, search, hist, jobs, nextId, now, req, poll, op,
                       sweep, mutex, conv>>

\* ------------------------------------------------ convert_images_to_pdf
\* ConversionResult; "item" is the index of the path the error message names
\* (0: none).
NoConversion == [success |-> FALSE, page_count |-> 0, output_path |-> NoPath,
                 size_mb |-> 0, error |-> "", item |-> 0]

\* No call yet.  "paths" are the image paths passed, "valid" the ones kept by
\* the filter, "i" the index of the next one to add, "pages" the pages of
\* the document so far, "tried" the strategies tried on each path, "before"
\* the file at the output path when the call was made.
NoConv == [pc |-> "none", paths |-> <<>>, valid |-> <<>>, i |-> 0, pages |-> 0,
           tried |-> <<>>, before |-> NoFile, out |-> NoFile,
           result |-> NoConversion]

\* An image path as the call meets it: whether the file exists, whether its
\* suffix is in SUPPORTED_FORMATS, and whether each strategy can convert it.
ImageFiles(k) ==
    [name : {k}, exists : BOOLEAN, supported : BOOLEAN, fitz : BOOLEAN, pil : BOOLEAN]
ImageLists ==
    UNION {{ps \in [1..n -> UNION {ImageFiles(k) : k \in 1..MaxImages}] :
                \A k \in 1..n : ps[k].name = k} : n \in 0..MaxImages}

\* Lines 118-127: the paths that exist and have a supported suffix, in order;
\* the others are skipped with a warning.
RECURSIVE ValidImages(_)
ValidImages(ps) ==
    IF ps = <<>> THEN <<>>
    ELSE IF Head(ps).exists /\ Head(ps).supported
         THEN <<Head(ps)>> \o ValidImages(Tail(ps))
         ELSE ValidImages(Tail(ps))

\* Lines 111-139: no path, no valid path, or a new empty document.
ConvertFilter ==
    /\ conv.pc = "called"
    /\ LET valid == ValidImages(conv.paths)
       IN  conv' = IF conv.paths = <<>>
                   THEN [conv EXCEPT !.pc = "returned",
                            !.result = [NoConversion EXCEPT !.error = "No images provided"]]
                   ELSE IF valid = <<>>
                   THEN [conv EXCEPT !.pc = "returned",
                            !.result = [NoConversion EXCEPT
                                          !.error = "No valid image files found"]]
                   ELSE [conv EXCEPT !.pc = "loop", !.valid = valid, !.i = 1]
    /\ UNCHANGED <<config, fs, search, hist, jobs, nextId, now, req, poll, op,
                   sweep, mutex, callers>>

\* Lines 141-152: _convert_with_fitz, then _convert_with_pil if it failed; when
\* both fail the document is closed and the call returns naming the image.
ConvertItem ==
    /\ conv.pc = "loop"
    /\ conv.i <= Len(conv.valid)
    /\ LET img == conv.valid[conv.i]
       IN  conv' = IF img.fitz
                   THEN [conv EXCEPT !.i = @ + 1, !.pages = @ + 1,
                                     !.tried = Append(@, <<"fitz">>)]
                   ELSE IF img.pil
                   THEN [conv EXCEPT !.i = @ + 1, !.pages = @ + 1,
                                     !.tried = Append(@, <<"fitz", "pil">>)]
                   ELSE [conv EXCEPT !.pc = "returned",
                            !.tried = Append(@, <<"fitz", "pil">>),
                            !.result = [NoConversion EXCEPT
                                          !.error = "Failed to process image",
                                          !.item = img.name]]
    /\ UNCHANGED <<config, fs, search, hist, jobs, nextId, now, req, poll, op,
                   sweep, mutex, callers>>

\* Lines 154-177: the document is saved at the output path and measured; an
\* exception of mkdir or save is caught and reported.
ConvertSave ==
    /\ conv.pc = "loop"
    /\ conv.i > Len(conv.valid)
    /\ \/ \E s \in 1..MaxSize :
            conv' = [conv EXCEPT !.pc = "returned", !.out = File(s),
                       !.result = [NoConversion EXCEPT !.success = TRUE,
                                     !.page_count = Len(conv.valid),
                                     !.output_path = "output.pdf", !.size_mb = s]]
       \/ conv' = [conv EXCEPT !.pc = "returned",
                      !.result = [NoConversion EXCEPT !.error = "Error creating PDF"]]
    /\ UNCHANGED <<config, fs, search, hist, jobs, nextId, now, req, poll, op,
                   sweep, mutex, callers>>

\* ------------------------------------------------------- specifications
MaxAttemptsValues == (-1..MaxAttemptsCfg) \cup {DefaultMaxAttempts}

\* No thread has called the store, no image has been converted.
InitCalls ==
    /\ mutex = NoMutex
    /\ callers = [c \in Callers |-> NoCaller]
    /\ conv = NoConv

InitConfig ==
    /\ progressive_configs \in {ConfiguredLadder(n) : n \in 0..MaxLadder}
    /\ max_attempts \in MaxAttemptsValues
    /\ gsInstalled \in BOOLEAN

\* The service after start-up: no job, no request.  The handlers run under a
\* configured ladder walked to its end; SpecSearch below covers the default
\* ladder and every other attempt bound.
Init ==
    /\ progressive_configs = ConfiguredLadder(MaxLadder)
    /\ max_attempts = MaxAttemptsCfg
    /\ gsInstalled \in BOOLEAN
    /\ fs = [j \in JobIds |-> EmptyDir]
    /\ search = NoSearch
    /\ hist = NoHist
    /\ jobs = [j \in JobIds |-> NoJob]
    /\ nextId = 1
    /\ now = 0
    /\ req = NoReq
    /\ cleanup_enabled = TRUE
    /\ poll = NoPoll
    /\ op = NoOp
    /\ sweep = NoSweep
    /\ InitCalls

Next ==
    \/ CompressPdfReject
    \/ CompressPdfStart
    \/ CompressPdfManual
    \/ CompressPdfFinish
    \/ ImagesStart
    \/ ImagesNextFile
    \/ ImagesReadFile
    \/ ImagesAccept
    \/ ImagesConvert
    \/ ImagesFinish
    \/ RequestEnd
    \/ SearchEnter
    \/ SearchAttempt
    \/ SearchFinal
    \/ CleanupOldJobs
    \/ Tick

Spec == Init /\ [][Next]_vars

\* compress_to_target_size applied to every input: the input file present (of
\* any size) or absent, the output path the input path itself or another path
\* with or without a file, every target, ladder, attempt bound and tool state.
InitSearch ==
    /\ InitConfig
    /\ \E fin \in {NoFile} \cup {File(s) : s \in Sizes},
          fout \in {NoFile} \cup {File(s) : s \in Sizes},
          out \in {"input.pdf", "output.pdf"},
          target \in Targets :
        /\ fs = [j \in JobIds |->
                   IF j = 1
                   THEN [NewDir EXCEPT !["output.pdf"] = fout, !["input.pdf"] = fin]
                   ELSE EmptyDir]
        /\ search = CallSearch(1, "input.pdf", out, target)
        /\ hist = CallHist(fs[1], "input.pdf", out)
    /\ jobs = [j \in JobIds |-> NoJob]
    /\ nextId = 1
    /\ now = 0
    /\ req = NoReq
    /\ cleanup_enabled = TRUE
    /\ poll = NoPoll
    /\ op = NoOp
    /\ sweep = NoSweep
    /\ InitCalls

NextSearch == SearchEnter \/ SearchAttempt \/ SearchFinal

SpecSearch == InitSearch /\ [][NextSearch]_vars

\* Up to MaxCalls calls of compress_with_settings, on every input and output
\* file and tool state.
NextInvoke == Invoke

SpecInvoke == InitSearch /\ [][NextInvoke]_vars

\* compress_pdf requests and status requests of clients polling them.
NextPoll ==
    \/ CompressPdfStart
    \/ CompressPdfManual
    \/ CompressPdfFinish
    \/ RequestEnd
    \/ SearchEnter
    \/ SearchAttempt
    \/ SearchFinal
    \/ StatusRequest
    \/ GetJobStatus
    \/ StatusEnd

SpecPoll == Init /\ [][NextPoll]_vars

\* The service after start-up, about to serve one request: uuid4 hands out
\* the last id of the handlers' range, and every other id names no job.
InitClient ==
    /\ progressive_configs = ConfiguredLadder(MaxLadder)
    /\ max_attempts = MaxAttemptsCfg
    /\ gsInstalled \in BOOLEAN
    /\ fs = [j \in JobIds |-> EmptyDir]
    /\ search = NoSearch
    /\ hist = NoHist
    /\ jobs = [j \in JobIds |-> NoJob]
    /\ nextId = MaxRequests
    /\ now = 0
    /\ req = NoReq
    /\ cleanup_enabled = TRUE
    /\ poll = NoPoll
    /\ op = NoOp
    /\ sweep = NoSweep
    /\ InitCalls

\* Both flows, the sweep and the clock, with clients asking for the status
\* and the output of any job id whenever the event loop is free.
NextClient ==
    \/ CompressPdfReject
    \/ CompressPdfStart
    \/ CompressPdfManual
    \/ CompressPdfFinish
    \/ ImagesStart
    \/ ImagesNextFile
    \/ ImagesReadFile
    \/ ImagesAccept
    \/ ImagesConvert
    \/ ImagesFinish
    \/ RequestEnd
    \/ SearchEnter
    \/ SearchAttempt
    \/ SearchFinal
    \/ CleanupOldJobs
    \/ Tick
    \/ StatusNow
    \/ DownloadFile
    \/ StatusEnd

SpecClient == InitClient /\ [][NextClient]_vars

\* The job store under direct calls with every id, known or not, at any
\* instant of the clock.
InitStore ==
    /\ progressive_configs = ConfiguredLadder(MaxLadder)
    /\ max_attempts = MaxAttemptsCfg
    /\ gsInstalled = TRUE
    /\ fs = [j \in JobIds |-> EmptyDir]
    /\ search = NoSearch
    /\ hist = NoHist
    /\ jobs = [j \in JobIds |-> NoJob]
    /\ nextId = 1
    /\ now \in 0..MaxTime
    /\ req = NoReq
    /\ cleanup_enabled \in BOOLEAN
    /\ poll = NoPoll
    /\ op = NoOp
    /\ sweep = NoSweep
    /\ InitCalls

\* Up to MaxCalls calls of create_job, get_job, update_job and cleanup_job.
NextStore ==
    \/ StoreCreateJob
    \/ StoreGetJob
    \/ StoreUpdateJob
    \/ StoreCleanupJob

SpecStore == InitStore /\ [][NextStore]_vars

\* Up to MaxCalls calls of any operation that takes a job id, and create_job.
NextStoreFiles ==
    \/ StoreCreateJob
    \/ StoreGetJob
    \/ StoreUpdateJob
    \/ StoreGetJobFilePath
    \/ StoreSaveUploadedFile
    \/ StoreCleanupJob
    \/ StoreGetOutputFile

SpecStoreFiles == InitStore /\ [][NextStoreFiles]_vars

\* cleanup_old_jobs, called any number of times, running step by step while
\* other callers create and remove jobs (up to MaxCalls calls) and time passes.
NextSweep ==
    \/ StoreCreateJob
    \/ StoreCleanupJob
    \/ SweepList
    \/ SweepRemove
    \/ SweepReturn
    \/ Tick

SpecSweep == InitStore /\ [][NextSweep]_vars

\* update_job and cleanup_old_jobs called from MaxCallers threads at once on
\* a store that holds one job, old or not according to the clock.
InitThreads ==
    /\ progressive_configs = ConfiguredLadder(MaxLadder)
    /\ max_attempts = MaxAttemptsCfg
    /\ gsInstalled = TRUE
    /\ fs = [j \in JobIds |-> IF j = 1 THEN NewDir ELSE EmptyDir]
    /\ search = NoSearch
    /\ hist = NoHist
    /\ jobs = create_job([j \in JobIds |-> NoJob], 1, 0)
    /\ nextId = 2
    /\ now \in 0..MaxTime
    /\ req = NoReq
    /\ cleanup_enabled = TRUE
    /\ poll = NoPoll
    /\ op = NoOp
    /\ sweep = NoSweep
    /\ InitCalls

NextThreads ==
    \/ ThreadUpdateCall
    \/ ThreadUpdateLock
    \/ ThreadUpdateAssign
    \/ ThreadUpdateRelease
    \/ ThreadSweepCall
    \/ ThreadSweepList
    \/ ThreadCleanupLock
    \/ ThreadCleanupStep
    \/ ThreadCleanupRelease
    \/ ThreadSweepReturn

SpecThreads == InitThreads /\ [][NextThreads]_vars

\* Two jobs with their uploads saved; the search of one of them, and
\* update_job and cleanup_job calls on either of them, in any order.
InitIsolation ==
    /\ progressive_configs = ConfiguredLadder(MaxLadder)
    /\ max_attempts = MaxAttemptsCfg
    /\ gsInstalled \in BOOLEAN
    /\ fs = [j \in JobIds |->
               IF j <= 2 THEN [NewDir EXCEPT !["input.pdf"] = File(MaxSize)]
               ELSE EmptyDir]
    /\ search = NoSearch
    /\ hist = NoHist
    /\ jobs = create_job(create_job([j \in JobIds |-> NoJob], 1, 0), 2, 0)
    /\ nextId = 3
    /\ now = 0
    /\ req = NoReq
    /\ cleanup_enabled = TRUE
    /\ poll = NoPoll
    /\ op = NoOp
    /\ sweep = NoSweep
    /\ InitCalls

NextIsolation ==
    \/ JobSearch
    \/ SearchEnter
    \/ SearchAttempt
    \/ SearchFinal
    \/ JobUpdate
    \/ JobCleanup

SpecIsolation == InitIsolation /\ [][NextIsolation]_vars

\* convert_images_to_pdf called with every list of up to MaxImages paths, the
\* output path holding a file or not.
InitConvert ==
    /\ progressive_configs = ConfiguredLadder(MaxLadder)
    /\ max_attempts = MaxAttemptsCfg
    /\ gsInstalled = TRUE
    /\ fs = [j \in JobIds |-> EmptyDir]
    /\ search = NoSearch
    /\ hist = NoHist
    /\ jobs = [j \in JobIds |-> NoJob]
    /\ nextId = 1
    /\ now = 0
    /\ req = NoReq
    /\ cleanup_enabled = TRUE
    /\ poll = NoPoll
    /\ op = NoOp
    /\ sweep = NoSweep
    /\ mutex = NoMutex
    /\ callers = [c \in Callers |-> NoCaller]
    /\ \E ps \in ImageLists, before \in {NoFile, File(1)} :
        conv = [NoConv EXCEPT !.pc = "called", !.paths = ps, !.before = before,
                              !.out = before]

NextConvert == ConvertFilter \/ ConvertItem \/ ConvertSave

SpecConvert == InitConvert /\ [][NextConvert]_vars

\* ------------------------------------------------------------ properties
\* What the search was called with, and what it has done so far.
Result == search.result
Ladder == EffectiveConfigs(progressive_configs)
Invocations == Len(hist.invoked)
\* The attempt bound the specification states: min(len(ladder), max_attempts),
\* and no attempt at all for a bound <= 0.
AttemptBound == Max(0, Min(Len(Ladder), max_attempts))
SearchCalled == search.pc \notin {"none", "start"}

\* C1. Early stop: as soon as an invocation has succeeded with a measured size
\* <= target, the search has returned success with target_reached, that entry
\* as config_used and that size as final_size_mb; it is the first entry that
\* qualified.
C1_EarlyStop ==
    (Invocations > 0 /\ hist.lastRes = "ok" /\ hist.lastMeasured <= search.target)
    => /\ search.pc = "returned"
       /\ search.ret = "early"
       /\ Result.success
       /\ Result.target_reached
       /\ Result.config_used = Ladder[Invocations]
       /\ Result.final_size_mb = hist.lastMeasured
       /\ hist.qualified = 1

\* C2. Exhaustion fallback: a finished search in which some attempt succeeded
\* and no successful attempt measured a size <= target has made
\* min(len(ladder), max_attempts) attempts and returned success with
\* target_reached = false and the last measured size as final_size_mb.
C2_ExhaustionFallback ==
    (SearchDone /\ hist.anyOk /\ hist.qualified = 0)
    => /\ search.pc = "returned"
       /\ Result.success
       /\ ~Result.target_reached
       /\ Result.final_size_mb = hist.lastMeasured
       /\ Invocations = AttemptBound

\* C3. Total tool failure: a finished search whose every invocation returned
\* not-ok has returned success = false with the compression-failed error and
\* no output path, and the compress_pdf job ends failed -- whatever was at the
\* output path before the search.
C3_TotalToolFailure ==
    (SearchDone /\ Invocations > 0 /\ ~hist.anyOk)
    => /\ search.pc = "returned"
       /\ ~Result.success
       /\ Result.error = CompressionFailedMsg
       /\ Result.output_path = NoPath
       /\ (req.pc = "done" /\ req.kind = "compress_pdf" /\ req.job \in JobIds)
            => jobs[req.job].status = "failed"

\* C4. Division-by-zero guard: no path raises a division by zero, and with an
\* initial size of 0 the reported reduction is 0, in the search (early stop
\* and exhaustion) and in the manual path of compress_pdf.
C4_ZeroDivisionGuard ==
    /\ search.exc # ZeroDivisionMsg
    /\ req.exc # ZeroDivisionMsg
    /\ (search.pc = "returned" /\ Result.initial_size_mb = 0)
          => Result.reduction_percent.num = 0
    /\ (req.pc = "cp_result" /\ req.size = 0)
          => req.result.reduction_percent.num = 0

\* C5. Attempt bound and order: the invocations so far are the first entries
\* of the ladder, in ladder order, and there are at most
\* min(len(ladder), max_attempts) of them, none when max_attempts <= 0.
C5_AttemptBoundAndOrder ==
    /\ Invocations <= AttemptBound
    /\ \A k \in 1..Invocations : k <= Len(Ladder) /\ hist.invoked[k] = Ladder[k]

\* C6. A failed invocation does not abort the search: while the loop runs,
\* every entry before the loop index has been invoked, failed ones included,
\* and a search that ends without an early stop has invoked every entry of
\* its attempt list.
C6_FailureDoesNotAbort ==
    /\ search.pc = "loop" => search.i = Invocations
    /\ (search.pc = "returned" /\ search.ret \in {"exhausted", "failed"})
          => Invocations = Len(Attempts)

\* C6 witness: an invocation failed and a later one reached the target.
C6_Witness ==
    /\ search.pc = "returned"
    /\ search.ret = "early"
    /\ hist.anyFail
    /\ Invocations > 1

\* C7. Source missing: called on an input that does not exist, the search has
\* returned the source-missing failure (sizes 0, reduction 0, an error naming
\* the input), has invoked nothing and has left the output path as it was.
C7_SourceMissing ==
    (SearchCalled /\ ~hist.in0.exists)
    => /\ search.pc = "returned"
       /\ ~Result.success
       /\ Result.initial_size_mb = 0
       /\ Result.final_size_mb = 0
       /\ Result.reduction_percent = ZeroPercent
       /\ Result.error = SourceMissingMsg
       /\ Result.output_path = NoPath
       /\ Invocations = 0
       /\ fs[search.dir][search.out] = hist.out0

\* C7 witness: the search returned on a missing input, with a file at the
\* output path.
C7_Witness ==
    /\ search.pc = "returned"
    /\ ~hist.in0.exists
    /\ hist.out0.exists

\* C8. Tool missing is fatal to the whole search: with the binary not found,
\* no second ladder entry is invoked, and the search's error -- and the failed
\* compress_pdf job's message -- is the tool-missing diagnostic.
C8_ToolMissingFatal ==
    (~gsInstalled /\ Invocations > 0)
    => /\ Invocations = 1
       /\ SearchDone => (~Result.success /\ Result.error = ToolMissingMsg)
       /\ (req.pc = "done" /\ req.kind = "compress_pdf" /\ req.job \in JobIds)
            => jobs[req.job].message = ToolMissingMsg

\* C9. A file left at the output path by a failed invocation is never
\* trusted: a search that returns success does not return a file written by
\* an invocation that returned not-ok.
C9_FailedOutputNotTrusted ==
    (search.pc = "returned" /\ Result.success) => ~hist.tainted

\* C10. Job status lifecycle: in every step a job's status stays or moves
\* forward along pending -> processing -> completed, or moves to failed; a
\* failed job stays failed.
StatusRank(st) ==
    CASE st = "pending" -> 0
      [] st = "processing" -> 1
      [] st = "completed" -> 2
      [] st = "failed" -> 3

C10_StatusLifecycle ==
    [][\A j \in JobIds :
          (jobs[j].present /\ jobs'[j].present)
          => /\ jobs'[j].status \in {"pending", "processing", "completed", "failed"}
             /\ StatusRank(jobs'[j].status) >= StatusRank(jobs[j].status)]_vars

\* C10 witness: a job that went through processing is completed, and the
\* handler has answered.
C10_Witness ==
    /\ req.pc = "done"
    /\ \E j \in JobIds : jobs[j].present /\ jobs[j].status = "completed"
                         /\ jobs[j].progress = 100

C12_SearchFailurePropagates ==
    (req.pc = "done" /\ search.pc = "returned" /\ ~Result.success)
    => /\ jobs[req.job].present
       /\ jobs[req.job].status = "failed"
       /\ jobs[req.job].message # ""

\* C13. Target unreachable is not an error at job level: a job whose search
\* returned success with target_reached = false is never failed, and once the
\* flow has answered it is completed with progress 100 and an output file;
\* the compress_pdf response is a success carrying target_reached = false.
\* (ImageToPdfResponse has no target_reached field.)
C13_TargetUnreachableCompletes ==
    (search.pc = "returned" /\ Result.success /\ ~Result.target_reached
       /\ req.job \in JobIds)
    => /\ jobs[req.job].status # "failed"
       /\ req.pc = "done"
          => /\ jobs[req.job].status = "completed"
             /\ jobs[req.job].progress = 100
             /\ jobs[req.job].output_file # NoPath
             /\ req.status_code = 200
             /\ req.kind = "compress_pdf" => ~req.result.target_reached

\* C13 witness: compress_pdf has answered for a search that used up the
\* ladder with every output above the target.
C13_Witness ==
    /\ req.pc = "done"
    /\ req.kind = "compress_pdf"
    /\ search.pc = "returned"
    /\ search.ret = "exhausted"
    /\ hist.anyOk
    /\ ~Result.target_reached

\* C14. The search is observable to a polling client: a status request
\* waiting while a search is in progress can be served (the search does not
\* block it), and a request for the job that arrived during its search is
\* served with status processing.
C14_SearchObservable ==
    /\ (poll.pc = "pending" /\ SearchInProgress) => ENABLED GetJobStatus
    /\ (poll.pc = "served" /\ poll.during) => poll.observed = "processing"

\* C15. create_job: a call registers, under an id no record used, a record
\* with status pending, progress 0, no message, no output file and creation
\* time now, creates that job's directory, and leaves every other record and
\* directory as it was.
C15_CreateJob ==
    [][op'.name = "create_job"
       => LET id == op'.id
          IN  /\ ~jobs[id].present
              /\ jobs'[id] = [present |-> TRUE, created_at |-> now, temp_dir |-> id,
                              status |-> "pending", progress |-> 0, message |-> "",
                              output_file |-> NoPath]
              /\ PathExists(fs'[id][DirPath])
              /\ \A j \in JobIds \ {id} : jobs'[j] = jobs[j] /\ fs'[j] = fs[j]]_vars

\* C15 witness: a job was created while another record, already updated,
\* was in the store.
C15_Witness ==
    /\ op.name = "create_job"
    /\ \E j \in JobIds \ {op.id} : jobs[j].present /\ jobs[j].status = "processing"

\* C16. update_job: a call sets exactly the passed fields of the addressed
\* record to the passed values and returns the record; every other field of
\* it, every other record and every file stay as they were; on an unknown id
\* it returns None and changes nothing.
C16_UpdateJobFrame ==
    [][op'.name = "update_job"
       => LET id == op'.id
              upd == op'.upd
          IN  /\ fs' = fs
              /\ \A j \in JobIds \ {id} : jobs'[j] = jobs[j]
              /\ IF jobs[id].present
                 THEN /\ op'.ret = "job"
                      /\ jobs'[id].present
                      /\ \A f \in DOMAIN upd : jobs'[id][f] = upd[f]
                      /\ \A f \in (DOMAIN jobs[id]) \ (DOMAIN upd) :
                            jobs'[id][f] = jobs[id][f]
                 ELSE /\ op'.ret = "None"
                      /\ jobs' = jobs]_vars

\* C16 witness: a call that passed only the progress reached a record whose
\* status an earlier call had set, with another record in the store.
C16_Witness ==
    /\ op.name = "update_job"
    /\ DOMAIN op.upd = {"progress"}
    /\ jobs[op.id].present
    /\ jobs[op.id].status = "processing"
    /\ jobs[op.id].progress = 50
    /\ \E j \in JobIds \ {op.id} : jobs[j].present

\* C17. Every operation that takes a job id, called with an id that names
\* no record (never created, or evicted), returns its not-found value, does
\* not raise, and leaves the store unchanged.
C17_UnknownIdNotFound ==
    (op.name \in {"get_job", "update_job", "cleanup_job", "get_output_file",
                  "get_job_file_path", "save_uploaded_file"}
       /\ ~op.known)
    => /\ op.raised = ""
       /\ op.ret = "None"
       /\ ~op.changed

\* C18. cleanup_job: a call removes the record and the directory with all
\* its files, touches no other job, and on an id without a record (removed
\* before, or never created) changes nothing and does not fail.
C18_CleanupJobIdempotent ==
    [][op'.name = "cleanup_job"
       => LET id == op'.id
          IN  /\ op'.raised = ""
              /\ jobs'[id] = NoJob
              /\ fs'[id] = EmptyDir
              /\ \A j \in JobIds \ {id} : jobs'[j] = jobs[j] /\ fs'[j] = fs[j]
              /\ ~jobs[id].present => (jobs' = jobs /\ fs' = fs)]_vars

\* C18 witness: the second cleanup_job of an id that was created and
\* removed, while another job is in the store.
C18_Witness ==
    /\ op.name = "cleanup_job"
    /\ ~op.known
    /\ op.id < nextId
    /\ \E j \in JobIds \ {op.id} : jobs[j].present

\* C19. cleanup_old_jobs, cleanup enabled: when the call returns, no job
\* older than its cutoff is left, and the number it returns is the number of
\* jobs it evicted itself -- also when another caller removed a listed job
\* between the listing and the removal.
C19_SweepCount ==
    (op.name = "cleanup_old_jobs" /\ cleanup_enabled)
    => /\ op.count = op.evicted
       /\ \A j \in JobIds :
            jobs[j].present => ~(jobs[j].created_at < op.at - MaxAge)

Quiescent == \A c \in Callers : callers[c].pc \in {"idle", "returned"}

\* The update_job calls that found the job and passed field f, and the one of
\* them that took the lock last.
Writers(id, f) ==
    {c \in Callers : /\ callers[c].name = "update_job"
                     /\ callers[c].id = id
                     /\ callers[c].ret = "job"
                     /\ f \in DOMAIN callers[c].upd}
LockPosition(c) == CHOOSE i \in 1..Len(mutex.order) : mutex.order[i] = c
LastWriter(id, f) ==
    CHOOSE c \in Writers(id, f) :
        \A d \in Writers(id, f) : LockPosition(d) <= LockPosition(c)

\* C21: once concurrent update_job calls on an existing job have returned, each
\* field of the record holds the value passed by the call that took the lock
\* last among the calls passing that field (so calls passing disjoint fields
\* all leave their values), and a field nobody passed keeps its initial value.
C21_NoLostUpdate ==
    Quiescent =>
        \A id \in JobIds : jobs[id].present =>
            \A f \in Fields :
                jobs[id][f] = IF Writers(id, f) = {} THEN NewJob(id, 0)[f]
                              ELSE callers[LastWriter(id, f)].upd[f]

\* Two calls on the same job have returned, sharing a field and each passing a
\* field the other did not.
C21_Witness ==
    /\ Quiescent
    /\ jobs[1].present
    /\ \E c, d \in Callers :
        /\ c # d
        /\ callers[c].ret = "job" /\ callers[d].ret = "job"
        /\ callers[c].id = 1 /\ callers[d].id = 1
        /\ (DOMAIN callers[c].upd) \cap (DOMAIN callers[d].upd) # {}
        /\ (DOMAIN callers[c].upd) \ (DOMAIN callers[d].upd) # {}
        /\ (DOMAIN callers[d].upd) \ (DOMAIN callers[c].upd) # {}

\* C22: when cleanup_old_jobs and update_job run at once on the same old job, an
\* update_job call that returned the job made all its assignments in the
\* record the store held, and one that returned None made none; a record
\* holding only part of an update is held only while the updating thread is
\* inside the lock; a record is never removed while an update of it is between
\* its first and last statement; and every record the store holds has its
\* working directory.
C22_EvictionUpdateExclusive ==
    /\ \A c \in Callers : callers[c].name = "update_job" =>
        LET me == callers[c]
        IN  /\ me.pc = "returned" =>
                  \/ me.ret = "job" /\ me.written = DOMAIN me.upd
                  \/ me.ret = "None" /\ me.done = {}
            /\ (me.done # {} /\ me.done # DOMAIN me.upd) => mutex.holder = c
            /\ (me.pc = "locked" /\ me.found) => jobs[me.id].present
            /\ me.written = me.done
    /\ \A j \in JobIds : jobs[j].present => PathExists(fs[j][DirPath])

\* An update_job call waits for the lock while cleanup_job, called by the sweep
\* for the same job, is inside it with the record already popped.
C22_Witness ==
    \E c, d \in Callers :
        /\ callers[c].name = "update_job" /\ callers[c].pc = "called"
        /\ callers[d].name = "cleanup_old_jobs" /\ callers[d].pc = "cleaning"
        /\ callers[d].id = callers[c].id
        /\ callers[d].step = 2
        /\ ~jobs[callers[d].id].present

\* C23: a status request for an id without a record is answered JOB_NOT_FOUND,
\* and a download request is answered with the file only if the job has a
\* record, its status is completed, an output file is recorded and that file
\* exists; every other download is answered FILE_NOT_FOUND.
C23_NotFound ==
    [][/\ (poll.pc = "none" /\ poll'.pc = "served" /\ poll'.kind = "status") =>
            (poll'.observed = "JOB_NOT_FOUND" <=> ~jobs[poll'.job].present)
       /\ (poll.pc = "none" /\ poll'.pc = "served" /\ poll'.kind = "download") =>
            LET job == jobs[poll'.job]
            IN  /\ poll'.observed \in {"artifact", "FILE_NOT_FOUND"}
                /\ poll'.observed = "artifact" <=>
                       /\ job.present
                       /\ job.status = "completed"
                       /\ job.output_file # NoPath
                       /\ PathExists(fs[poll'.job][job.output_file])]_vars

\* A download of a failed job has been answered not-found.
C23_Witness ==
    /\ poll.pc = "served"
    /\ poll.kind = "download"
    /\ poll.observed = "FILE_NOT_FOUND"
    /\ jobs[poll.job].present
    /\ jobs[poll.job].status = "failed"

\* C24: convert_images_to_pdf tries fitz first on each image and PIL only when
\* fitz failed on it; when a path is not found, has an unsupported format, or
\* fails under both strategies, the call returns success = false with an error
\* naming that path and the output path is left as it was; on success the
\* output path holds the document and page_count is the number of paths passed.
C24_AssemblyAllOrNothing ==
    conv.pc = "returned" =>
        /\ \A k \in 1..Len(conv.tried) :
              \/ conv.tried[k] = <<"fitz">>
              \/ conv.tried[k] = <<"fitz", "pil">> /\ ~conv.valid[k].fitz
        /\ \A k \in 1..Len(conv.paths) :
              LET img == conv.paths[k]
              IN  (~img.exists \/ ~img.supported \/ (~img.fitz /\ ~img.pil)) =>
                      /\ ~conv.result.success
                      /\ conv.result.item \in
                            {j \in 1..Len(conv.paths) :
                                LET bad == conv.paths[j]
                                IN  ~bad.exists \/ ~bad.supported
                                    \/ (~bad.fitz /\ ~bad.pil)}
                      /\ conv.out = conv.before
        /\ conv.result.success =>
              /\ PathExists(conv.out)
              /\ conv.out = File(conv.result.size_mb)
              /\ conv.result.page_count = Len(conv.paths)

C26_ReportedAttemptConsistent ==
    (search.pc = "returned" /\ search.ret = "exhausted") =>
        /\ Invocations > 0
        /\ Result.config_used = hist.invoked[Invocations]
        /\ hist.lastRes = "ok"
        /\ Result.final_size_mb = hist.lastMeasured

\* C27: when the search over the assembled PDF returns a failure, images_to_pdf
\* renames the assembled file to the final path and answers 200: the job is
\* completed with that file as output, its record being the one an ordinary
\* success leaves, and the response reports reduction 0 and a final size
\* equal to the assembled size.
C27_AssembledFallback ==
    (/\ req.pc = "done"
     /\ req.kind = "images_to_pdf"
     /\ search.pc = "returned"
     /\ ~Result.success) =>
        LET job == jobs[req.job]
            dir == fs[req.job]
        IN  /\ req.status_code = 200
            /\ job.present
            /\ \A f \in DOMAIN ImagesCompleted : job[f] = ImagesCompleted[f]
            /\ dir["output.pdf"] = File(req.size)
            /\ ~PathExists(dir["output_temp.pdf"])
            /\ req.result.final_size_mb = req.size
            /\ req.result.initial_size_mb = req.size
            /\ req.result.reduction_percent = ZeroPercent

\* An images_to_pdf request whose search failed has been answered.
C27_Witness ==
    /\ req.pc = "done"
    /\ req.kind = "images_to_pdf"
    /\ search.pc = "returned"
    /\ ~Result.success
    /\ hist.anyFail
    /\ jobs[req.job].status = "completed"

\* The job a step belongs to: the job whose files the search works on, or the
\* id passed to update_job or cleanup_job.
Actor == IF search' # search \/ hist' # hist THEN search'.dir ELSE op'.id

\* C28: a search step, an update_job call or a cleanup_job call of one job
\* leaves the record and the files of every other job unchanged.
C28_CrossJobIsolation ==
    [][\A j \in JobIds : j # Actor => (jobs'[j] = jobs[j] /\ fs'[j] = fs[j])]_vars

\* A search of job 1 is past its first invocation when update_job changes the
\* record of job 2, whose files are in place.
C28_Witness ==
    /\ search.dir = 1
    /\ search.pc = "loop"
    /\ Invocations >= 1
    /\ op.name = "update_job"
    /\ op.id = 2
    /\ op.changed
    /\ jobs[1].present /\ jobs[2].present
    /\ PathExists(fs[2]["input.pdf"])

\* C29: while a job driven by compress_pdf or images_to_pdf has a record, its
\* output_file is set exactly when its status is completed, and a completed
\* job has progress 100 and its output file on disk in its own directory.
C29_OutputIffCompleted ==
    \A j \in JobIds : jobs[j].present =>
        /\ (jobs[j].output_file # NoPath) <=> (jobs[j].status = "completed")
        /\ jobs[j].status = "completed" =>
              /\ jobs[j].progress = 100
              /\ jobs[j].temp_dir = j
              /\ jobs[j].output_file \in Paths
              /\ PathExists(fs[jobs[j].temp_dir][jobs[j].output_file])

\* An images_to_pdf job is completed with its output in place.
C29_Witness ==
    /\ req.pc = "done"
    /\ req.kind = "images_to_pdf"
    /\ jobs[req.job].present
    /\ jobs[req.job].status = "completed"
    /\ PathExists(fs[req.job][jobs[req.job].output_file])

\* C30: the step that answers a request with a validation error (400 or 413)
\* leaves every other job's record and directory as they were, and leaves
\* neither a record nor a directory of a job of its own: compress_pdf has not
\* created one, images_to_pdf has removed the one it created.
C30_RejectionLeavesNoJob ==
    [][(req.pc # "done" /\ req'.pc = "done" /\ req'.status_code \in {400, 413}) =>
          /\ \A j \in JobIds : j # req'.job =>
                (jobs'[j] = jobs[j] /\ fs'[j] = fs[j])
          /\ req'.kind = "compress_pdf" =>
                (req'.job = 0 /\ nextId' = nextId /\ jobs' = jobs /\ fs' = fs)
          /\ req'.kind = "images_to_pdf" =>
                (~jobs'[req'.job].present /\ fs'[req'.job] = EmptyDir)]_vars

\* An images_to_pdf request has been answered 413 after its job was created.
C30_Witness ==
    /\ req.pc = "done"
    /\ req.kind = "images_to_pdf"
    /\ req.status_code = 413
    /\ req.job \in JobIds
    /\ nextId > req.job
    /\ ~jobs[req.job].present
    /\ fs[req.job] = EmptyDir

====
